---------------------------- MODULE Spec2Model ----------------------------
(***************************************************************************)
(* A model of the car of Carambolage (src/game/car.rs): its constructor,   *)
(* its per-tick update `run` and its `draw`, plus the Newtonian point-mass *)
(* variant the specification describes.                                    *)
(*                                                                         *)
(* Numbers.  The code computes in f32; the model computes exactly, in      *)
(* fixed point, and does not model f32 rounding, NaN or infinities:        *)
(*   - a control axis is one of -1, 0, 1;                                  *)
(*   - a duration is a whole number of microseconds, and num_milliseconds  *)
(*     truncates it to whole milliseconds as the time crate does;          *)
(*   - an angle n stands for n / 10000 rad (dt is ms / 1000), so that      *)
(*     steer * dt * 3.5 is the integer steer * ms * TurnGainTenths;        *)
(*   - a direction is a vector of numerators over Unit;                    *)
(*   - a position p stands for p / (Unit * 1000) m, so that                *)
(*     forward * accel * dt * 10 is the integer forward*accel*ms*SpeedGain;*)
(*   - a mass m stands for m / MassScale kg.                               *)
(* Sine and cosine.  No nonzero angle the code can reach has a rational    *)
(* sine, so the model evaluates them on a grid: the durations of the model *)
(* are multiples of 184 ms, which makes every yaw a multiple of YawStep =  *)
(* 0.644 rad, and the k-th grid angle is given the sine and cosine of      *)
(* k * atan(3/4) = k * 0.6435 rad, which are the exact rationals           *)
(* Im and Re of ((4 + 3i) / 5)^k.                                          *)
(***************************************************************************)
EXTENDS Integers, Sequences, FiniteSets

VARIABLES car, ctor, panicked, last, ticks, pm, pmLast, pmTicks

vars == <<car, ctor, panicked, last, ticks, pm, pmLast, pmTicks>>

carVars == <<car, ctor, panicked, last, ticks>>
pmVars == <<pm, pmLast, pmTicks>>

---------------------------------------------------------------------------
(* Bounds of the model *)

\* calls of run explored from a freshly constructed car
MaxTicks == 2
\* the yaw stays within MaxTurn grid angles of zero
MaxTurn == 2
\* the longest tick, in quanta of 184 ms
MaxQuanta == 2
\* resolution of a mass: MassScale steps per kg
MassScale == 2
\* calls of advance explored from a freshly constructed point mass
PMMaxSteps == 2

---------------------------------------------------------------------------
(* Program constants *)

\* car.rs:66  `* 3.5`, in tenths
TurnGainTenths == 35
\* car.rs:74  `* 10.`
SpeedGain == 10

---------------------------------------------------------------------------
(* Arithmetic helpers *)

Abs(n) == IF n < 0 THEN -n ELSE n
Sgn(n) == IF n < 0 THEN -1 ELSE IF n > 0 THEN 1 ELSE 0

RECURSIVE Pow(_, _)
Pow(b, e) == IF e <= 0 THEN 1 ELSE b * Pow(b, e - 1)

\* numerators of directions are over Unit = 5^MaxTurn
Unit == Pow(5, MaxTurn)

\* the yaw change of one 184 ms tick at full steer and throttle (0.644 rad)
YawStep == 184 * TurnGainTenths

\* the grid angle nearest to the angle a >= 0
TurnIndex(a) == (2 * a + YawStep) \div (2 * YawStep)

\* (4 + 3i)^k as <<re, im>>
RECURSIVE Gauss(_)
Gauss(k) == IF k <= 0 THEN <<1, 0>>
            ELSE LET g == Gauss(k - 1)
                 IN  <<4 * g[1] - 3 * g[2], 3 * g[1] + 4 * g[2]>>

\* Unit * cos(a) and Unit * sin(a) of an angle a >= 0 on the grid
Cos(a) == LET k == TurnIndex(a) IN Gauss(k)[1] * Pow(5, MaxTurn - k)
Sin(a) == LET k == TurnIndex(a) IN Gauss(k)[2] * Pow(5, MaxTurn - k)

Add3(a, b) == <<a[1] + b[1], a[2] + b[2], a[3] + b[3]>>
Scale3(a, s) == <<a[1] * s, a[2] * s, a[3] * s>>
Zero3 == <<0, 0, 0>>

\* a 4x4 matrix (rows of numerators over Unit) times a 4-vector
MatVec(m, v) ==
    [i \in 1..4 |-> m[i][1] * v[1] + m[i][2] * v[2] + m[i][3] * v[3] + m[i][4] * v[4]]


---------------------------------------------------------------------------
(* Inputs *)

\* Option<Controller>: None, or a sample with its two axes
None == [some |-> FALSE, x |-> 0, y |-> 0]
Some(x, y) == [some |-> TRUE, x |-> x, y |-> y]
AxisValues == {-1, 0, 1}
Controllers == {None} \cup {Some(x, y) : x \in AxisValues, y \in AxisValues}

\* delta_time in microseconds: whole quanta of 184 ms, and two durations that
\* are no whole number of milliseconds
DeltaTimes == {q * 184000 : q \in 0..MaxQuanta} \cup {500, 184500}

\* the arguments of Car::new
Positions == {Zero3, <<3 * Unit, -2 * Unit, 7 * Unit>>}
Masses == {-MassScale, 0, MassScale - 1, MassScale, MassScale + 1, 2 * MassScale}

\* the camera matrices handed to draw are opaque to the car
Cameras == {"front", "top"}

---------------------------------------------------------------------------
(* Car *)

\* impl Default for Car (the graphical model is left out)
Default == [center_of_mass |-> Zero3,
            orientation |-> Zero3,
            mass |-> MassScale,
            dist_front_axle |-> 1,
            dist_rear_axle |-> 1]

\* Car::new with the mass test `mass > 0.`
NewAcceptsPositive(p, m) ==
    LET c == [Default EXCEPT !.center_of_mass = p]
    IN  IF m > 0 THEN [c EXCEPT !.mass = m] ELSE c

\* Car::new
New(p, m) ==
    LET c == [Default EXCEPT !.center_of_mass = p]
    IN  IF m > MassScale THEN [c EXCEPT !.mass = m] ELSE c

\* Duration::num_milliseconds of a non-negative duration
NumMilliseconds(us) == us \div 1000

\* steering that ignores the throttle
SteerUngated(ct) == ct.x

\* let accel = ct.get_y_axis(); let steer = ct.get_x_axis() * accel;
Accel(ct) == ct.y
Steer(ct) == ct.x * Accel(ct)

\* the yaw change applied to the roll component
TurnRoll(o, steer, ms) == [o EXCEPT ![1] = @ - steer * ms * TurnGainTenths]

\* self.orientation[2] -= steer * dt * 3.5;
Turn(o, steer, ms) == [o EXCEPT ![3] = @ - steer * ms * TurnGainTenths]

\* a rotation about the axis of o by its length.  The model takes the axis
\* and the length of a vector with at most one nonzero component, which is
\* all the car ever holds (AxisAligned below).
Axis(o) == <<Sgn(o[1]), Sgn(o[2]), Sgn(o[3])>>
Angle(o) == Abs(o[1]) + Abs(o[2]) + Abs(o[3])
AxisAngle(u, c, s) ==
    <<  <<u[1] * u[1] * Unit + (1 - u[1] * u[1]) * c,
          u[1] * u[2] * (Unit - c) - u[3] * s,
          u[1] * u[3] * (Unit - c) + u[2] * s,
          0>>,
        <<u[1] * u[2] * (Unit - c) + u[3] * s,
          u[2] * u[2] * Unit + (1 - u[2] * u[2]) * c,
          u[2] * u[3] * (Unit - c) - u[1] * s,
          0>>,
        <<u[1] * u[3] * (Unit - c) - u[2] * s,
          u[2] * u[3] * (Unit - c) + u[1] * s,
          u[3] * u[3] * Unit + (1 - u[3] * u[3]) * c,
          0>>,
        <<0, 0, 0, Unit>>  >>

\* a rotation matrix with the cosine where the sine belongs
NewRotationCosForSin(o) == AxisAngle(Axis(o), Cos(Angle(o)), Cos(Angle(o)))

\* Matrix4::new_rotation(self.orientation)
NewRotation(o) == AxisAngle(Axis(o), Cos(Angle(o)), Sin(Angle(o)))

\* Matrix4::from_euler_angles(0., 0., yaw)
FromEulerYaw(yaw) == AxisAngle(<<0, 0, Sgn(yaw)>>, Cos(Abs(yaw)), Sin(Abs(yaw)))

\* forward taken along the z axis
ForwardAlongZ == <<0, 0, 1>>

\* Vector3::new(0f32, 1., 0.)
CanonicalForward == <<0, 1, 0>>

\* Vector3::to_homogeneous appends a 0
ToHomogeneous(v) == <<v[1], v[2], v[3], 0>>

\* Vector3::from_homogeneous is None unless the last coordinate is 0
FromHomogeneous(h) ==
    IF h[4] = 0 THEN [some |-> TRUE, v |-> <<h[1], h[2], h[3]>>]
    ELSE [some |-> FALSE, v |-> Zero3]

\* the homogeneous coordinate set as for a point
SetWOne(h) == [h EXCEPT ![4] = 1]

\* forward[3] = 0.;
ClearW(h) == [h EXCEPT ![4] = 0]

\* the forward direction of orientation o, as handed to from_homogeneous
Forward(o) == ClearW(MatVec(NewRotation(o), ToHomogeneous(CanonicalForward)))

\* what one call of run computes: the car afterwards, whether unwrap() panicked,
\* and the values it went through
Outcome(c, ms, forward, panic) ==
    [car |-> c, ms |-> ms, forward |-> forward, panic |-> panic]
NoForward == <<0, 0, 0, 0>>

\* a run that moves the car along the forward direction of before the turn
RunStepStaleForward(c, delta_time, ct) ==
    LET ms == NumMilliseconds(delta_time)
        o == Turn(c.orientation, Steer(ct), ms)
        forward == Forward(c.orientation)
        v == FromHomogeneous(forward)
    IN  IF ~ct.some THEN Outcome(c, 0, NoForward, FALSE)
        ELSE IF ~v.some THEN Outcome([c EXCEPT !.orientation = o], ms, forward, TRUE)
        ELSE Outcome([c EXCEPT !.orientation = o,
                                !.center_of_mass = Add3(@, Scale3(v.v, Accel(ct) * ms * SpeedGain))],
                     ms, forward, FALSE)

\* a run that takes a missing sample for full throttle
RunStepDefaultThrottle(c, delta_time, ct) ==
    LET ms == NumMilliseconds(delta_time)
        forward == Forward(c.orientation)
    IN  Outcome([c EXCEPT !.center_of_mass =
                        Add3(@, Scale3(FromHomogeneous(forward).v,
                                       (IF ct.some THEN Accel(ct) ELSE 1) * ms * SpeedGain))],
                ms, forward, FALSE)

\* Car::run
RunStep(c, delta_time, ct) ==
    LET ms == NumMilliseconds(delta_time)
        o == Turn(c.orientation, Steer(ct), ms)
        forward == Forward(o)
        v == FromHomogeneous(forward)
    IN  IF ~ct.some THEN Outcome(c, 0, NoForward, FALSE)
        ELSE IF ~v.some THEN Outcome([c EXCEPT !.orientation = o], ms, forward, TRUE)
        ELSE Outcome([c EXCEPT !.orientation = o,
                                !.center_of_mass = Add3(@, Scale3(v.v, Accel(ct) * ms * SpeedGain))],
                     ms, forward, FALSE)

\* Car::draw: the model matrix is translation * rotation, its rotation block
\* over Unit and its translation column in position units
DrawModel(c) == [rotation |-> FromEulerYaw(c.orientation[3]),
                 translation |-> c.center_of_mass]

---------------------------------------------------------------------------
(* The car as a state machine *)

\* the record of the last call: what it was given, the car before it, and
\* what it went through
Call(op, delta_time, ct, pre, ms, forward, mvp) ==
    [op |-> op, delta_time |-> delta_time, controller |-> ct, pre |-> pre,
     ms |-> ms, forward |-> forward, mvp |-> mvp]
NoMvp == [view |-> "", projection |-> "", model |-> DrawModel(Default)]

\* the point mass of a run of the car alone
IdlePM == [position |-> <<0, 0>>, velocity |-> <<0, 0>>, force |-> <<0, 0>>,
           mass |-> 1, rotation |-> 0, built |-> FALSE]
NoAdvance == [op |-> "new", time_step |-> 0, pre |-> IdlePM]

Init ==
    /\ \E p \in Positions, m \in Masses :
          /\ ctor = [center_of_mass |-> p, mass |-> m]
          /\ car = New(p, m)
          /\ last = Call("new", 0, None, New(p, m), 0, NoForward, NoMvp)
    /\ panicked = FALSE
    /\ ticks = 0
    /\ pm = IdlePM
    /\ pmLast = NoAdvance
    /\ pmTicks = 0

\* the orientations the model follows the car to
InRange(o) == TurnIndex(Angle(o)) <= MaxTurn

Run ==
    /\ ~panicked
    /\ ticks < MaxTicks
    /\ \E delta_time \in DeltaTimes, ct \in Controllers :
          LET r == RunStep(car, delta_time, ct)
          IN  /\ InRange(Turn(car.orientation, Steer(ct), NumMilliseconds(delta_time)))
              /\ car' = r.car
              /\ panicked' = r.panic
              /\ last' = Call("run", delta_time, ct, car, r.ms, r.forward, NoMvp)
    /\ ticks' = ticks + 1
    /\ UNCHANGED <<ctor, pmVars>>

Draw ==
    /\ ~panicked
    /\ \E view \in Cameras, projection \in Cameras :
          last' = Call("draw", 0, None, car, 0, NoForward,
                       [view |-> view, projection |-> projection,
                        model |-> DrawModel(car)])
    /\ UNCHANGED <<car, ctor, panicked, ticks, pmVars>>

Next == Run \/ Draw

Spec == Init /\ [][Next]_vars


---------------------------------------------------------------------------
(* The Newtonian point mass.  A position or a velocity v is held as the    *)
(* numerator of v over 2 * mass, which keeps force / (2 * mass) and        *)
(* force / mass exact: over that denominator they are force and 2 * force. *)

Add2(a, b) == <<a[1] + b[1], a[2] + b[2]>>
Scale2(a, s) == <<a[1] * s, a[2] * s>>

PMCoords == {<<0, 0>>, <<1, 0>>, <<-1, 2>>}
PMMasses == {0, 1, 2}
TimeSteps == -1 .. 2

\* the constructor: it requires mass > 0
NewPM(p, v, f, m) ==
    IF m > 0
    THEN [position |-> Scale2(p, 2 * m), velocity |-> Scale2(v, 2 * m),
          force |-> f, mass |-> m, rotation |-> 0, built |-> TRUE]
    ELSE [IdlePM EXCEPT !.mass = m]

\* advance with the velocity updated before the position
AdvanceVelocityFirst(b, t) ==
    LET v == Add2(b.velocity, Scale2(b.force, 2 * t))
    IN  [b EXCEPT !.velocity = v,
                  !.position = Add2(Add2(@, Scale2(v, t)), Scale2(b.force, t * t))]

\* position += velocity * time_step + force / (2 * mass) * time_step^2
\* velocity += force / mass * time_step
Advance(b, t) ==
    [b EXCEPT !.position = Add2(Add2(@, Scale2(b.velocity, t)), Scale2(b.force, t * t)),
              !.velocity = Add2(@, Scale2(b.force, 2 * t))]

InitPM ==
    /\ \E p \in PMCoords, v \in PMCoords, f \in PMCoords, m \in PMMasses :
          /\ pm = NewPM(p, v, f, m)
          /\ pmLast = [op |-> "new", time_step |-> 0, pre |-> NewPM(p, v, f, m)]
    /\ pmTicks = 0
    /\ ctor = [center_of_mass |-> Zero3, mass |-> MassScale]
    /\ car = Default
    /\ last = Call("new", 0, None, Default, 0, NoForward, NoMvp)
    /\ panicked = FALSE
    /\ ticks = 0

AdvancePM ==
    /\ pm.built
    /\ pmTicks < PMMaxSteps
    /\ \E t \in TimeSteps :
          /\ pm' = Advance(pm, t)
          /\ pmLast' = [op |-> "advance", time_step |-> t, pre |-> pm]
    /\ pmTicks' = pmTicks + 1
    /\ UNCHANGED carVars

\* render submits nothing and changes nothing
RenderPM ==
    /\ pm.built
    /\ pmLast' = [op |-> "render", time_step |-> 0, pre |-> pm]
    /\ UNCHANGED <<pm, pmTicks, carVars>>

NextPM == AdvancePM \/ RenderPM

SpecPM == InitPM /\ [][NextPM]_vars

---------------------------------------------------------------------------
(* Properties of the car *)

RanWith == last.op = "run" /\ last.controller.some
Coasted == last.op = "run" /\ ~last.controller.some
Yaw(c) == c.orientation[3]
Moved == <<car.center_of_mass[1] - last.pre.center_of_mass[1],
           car.center_of_mass[2] - last.pre.center_of_mass[2],
           car.center_of_mass[3] - last.pre.center_of_mass[3]>>
Dot3(a, b) == a[1] * b[1] + a[2] * b[2] + a[3] * b[3]
Direction3 == <<last.forward[1], last.forward[2], last.forward[3]>>

\* every orientation the car holds lies along one axis, which is what Axis
\* and Angle rest on
AxisAligned ==
    Cardinality({i \in 1..3 : car.orientation[i] # 0}) <= 1

\* every yaw the car holds is on the grid of Cos and Sin
OnGrid == Yaw(car) % YawStep = 0

\* C1: a call of run without a control sample leaves the whole car (position,
\* orientation, mass, axle distances) as it was, whatever the pose and the
\* duration, and does not fail.
C1_Coast == Coasted => (car = last.pre /\ ~panicked)

C1_Witness ==
    /\ Coasted
    /\ last.delta_time > 0
    /\ Yaw(car) # 0
    /\ car.center_of_mass # ctor.center_of_mass

\* C2: with a control sample whose throttle is 0 the effective steering is 0
\* and the orientation is unchanged by run, whatever the steer and the duration.
C2_SteerGated ==
    (RanWith /\ last.controller.y = 0) =>
        /\ Steer(last.controller) = 0
        /\ car.orientation = last.pre.orientation

C2_Witness ==
    /\ RanWith
    /\ last.controller.y = 0
    /\ last.controller.x # 0
    /\ last.ms > 0
    /\ Yaw(car) # 0

\* C3: Car::new(p, m) does not fail; the car keeps mass 1 when m <= 1 and mass m
\* when m > 1; it starts at p with the zero orientation.
C3_MassValidation ==
    /\ car.mass = (IF ctor.mass <= MassScale THEN MassScale ELSE ctor.mass)
    /\ last.op = "new" =>
          /\ ~panicked
          /\ car.center_of_mass = ctor.center_of_mass
          /\ car.orientation = Zero3

C3_Witness ==
    /\ last.op = "new"
    /\ ctor.mass > 0
    /\ ctor.mass < MassScale
    /\ car.mass = MassScale
    /\ ctor.center_of_mass # Zero3

\* C4: in every state reached from Car::new by run and draw, the roll and the
\* pitch component of the orientation are 0.
C4_NoRollPitch == car.orientation[1] = 0 /\ car.orientation[2] = 0

C4_Witness ==
    /\ last.op = "draw"
    /\ ticks >= 2
    /\ Yaw(car) # 0

\* C5: in every call of run with a control sample the 4th coordinate of the
\* rotated forward vector is 0 when it is converted to a 3-vector, so the
\* conversion succeeds and run never fails.
C5_HomogeneousZero == ~panicked /\ (RanWith => last.forward[4] = 0)

C5_Witness ==
    /\ RanWith
    /\ Yaw(car) # 0
    /\ last.forward[1] # 0
    /\ last.ms > 0

\* C6: the rotated forward vector has the magnitude of (0,1,0), which is 1
\* (Unit over Unit), and the displacement of one tick has the magnitude
\* |throttle| * dt * 10: in position units, for ms > 0, its quotient by
\* ms * SpeedGain has the squared magnitude throttle^2 * Unit^2.
C6_NormPreserved ==
    RanWith =>
        /\ Dot3(Direction3, Direction3) = Unit * Unit
        /\ IF last.ms = 0 THEN Moved = Zero3
           ELSE LET k == last.ms * SpeedGain
                    d == <<Moved[1] \div k, Moved[2] \div k, Moved[3] \div k>>
                IN  /\ Scale3(d, k) = Moved
                    /\ Dot3(d, d) = last.controller.y * last.controller.y * Unit * Unit

C6_Witness ==
    /\ RanWith
    /\ last.controller.y # 0
    /\ last.ms > 0
    /\ Moved[1] # 0
    /\ Moved[2] # 0

\* the forward direction of a yaw in closed form: (-sin yaw, cos yaw, 0)
Heading(yaw) == <<-Sgn(yaw) * Sin(Abs(yaw)), Cos(Abs(yaw)), 0>>

\* C8: one steered step sets yaw' = yaw - (x * y) * dt * 3.5, then moves the
\* position by the forward direction of yaw' (not of yaw) times y * dt * 10,
\* with nothing clamped and nothing carried over from the call before.
C8_SteeredStep ==
    RanWith =>
        /\ Yaw(car) = Yaw(last.pre)
                      - last.controller.x * last.controller.y * last.ms * TurnGainTenths
        /\ car.center_of_mass =
              Add3(last.pre.center_of_mass,
                   Scale3(Heading(Yaw(car)), last.controller.y * last.ms * SpeedGain))

C8_Witness ==
    /\ RanWith
    /\ Yaw(last.pre) # 0
    /\ Yaw(car) # Yaw(last.pre)
    /\ Yaw(car) # 0
    /\ last.controller.y # 0

\* C9: in run with a control sample dt is the duration in seconds, for every
\* duration, so the yaw change and the displacement are proportional to the
\* time that elapsed.
C9_DtIsDuration ==
    RanWith =>
        /\ last.ms * 1000 = last.delta_time
        /\ (Yaw(last.pre) - Yaw(car)) * 1000 =
              last.controller.x * last.controller.y * last.delta_time * TurnGainTenths

\* C10: in every state reached from Car::new(p, m) by run, the z component of
\* the position is that of p.
C10_Planar == car.center_of_mass[3] = ctor.center_of_mass[3]

C10_Witness ==
    /\ ctor.center_of_mass[3] # 0
    /\ car.center_of_mass[1] # ctor.center_of_mass[1]
    /\ car.center_of_mass[2] # ctor.center_of_mass[2]
    /\ Yaw(car) # 0
    /\ ticks >= 2

---------------------------------------------------------------------------
(* Properties of the point mass *)

\* C7: advance(t) sets position to position + velocity * t + force / (2 * mass)
\* * t^2 with the velocity of before the call, and then velocity to velocity +
\* force / mass * t.  From position (0,0), velocity (0,0), force (1,0), mass 1,
\* t = 2 the result is position (2,0), velocity (2,0); from position (0,0),
\* velocity (1,0), force (0,0), mass 1, t = 1 it is position (1,0), velocity (1,0).
C7_IntegrationOrder ==
    pmLast.op = "advance" =>
        LET b == pmLast.pre
            t == pmLast.time_step
        IN  /\ pm.position = Add2(Add2(b.position, Scale2(b.velocity, t)),
                                  Scale2(b.force, t * t))
            /\ pm.velocity = Add2(b.velocity, Scale2(b.force, 2 * t))
            /\ (b = NewPM(<<0, 0>>, <<0, 0>>, <<1, 0>>, 1) /\ t = 2) =>
                  /\ pm.position = Scale2(<<2, 0>>, 2 * b.mass)
                  /\ pm.velocity = Scale2(<<2, 0>>, 2 * b.mass)
            /\ (b = NewPM(<<0, 0>>, <<1, 0>>, <<0, 0>>, 1) /\ t = 1) =>
                  /\ pm.position = Scale2(<<1, 0>>, 2 * b.mass)
                  /\ pm.velocity = Scale2(<<1, 0>>, 2 * b.mass)

C7_Witness ==
    /\ pmLast.op = "advance"
    /\ pmLast.pre = NewPM(<<0, 0>>, <<0, 0>>, <<1, 0>>, 1)
    /\ pmLast.time_step = 2
    /\ pm.position = <<4, 0>>

=============================================================================
